---- MODULE Spec2Model ----
(***************************************************************************)
(* A model of two classes of the sux library:                              *)
(*   sux::util::BitL            (src/sux/util/BitL.hpp), a bit-compressed  *)
(*                              Fenwick tree in level-order layout;        *)
(*   sux::function::RiceBitVector (src/sux/function/RiceBitVector.hpp),    *)
(*                              the Golomb-Rice code store of RecSplit.    *)
(* Memory is modelled at the level of single bits: a byte array or a       *)
(* 64-bit word is the set of the positions of its set bits, so that        *)
(* 64-bit words keep their width.                                          *)
(***************************************************************************)
EXTENDS Integers, Naturals, Sequences, FiniteSets, TLC

VARIABLES
    \* ---- BitL<BOUND> ----
    BOUND,      \* the template parameter BOUND (fixed for the life of a tree)
    Tree,       \* Tree[h]: the bytes of Vector<uint8_t> Tree[h], as the set of set bit positions
    TreeSize,   \* TreeSize[h]: Tree[h].size(), in bytes
    Levels,     \* BitL::Levels
    Size,       \* BitL::Size
    sequence,   \* the logical sequence the tree stands for (history variable)
    op,         \* the last BitL operation, its arguments and results (history variable)
    snap,       \* prefix(0..Size) and Size as they were before the last push (history variable)
    \* ---- RiceBitVector ----
    rice,       \* the fields of the vector: data (the set of the set bit positions of the
                \* buffer), data_bytes, bit_count, curr_fixed_offset, curr_ptr_unary (as a
                \* word index from data), curr_window_unary (a 64-bit word),
                \* valid_lower_bits_unary
    looping,    \* TRUE once a call has entered a growth loop that never ends
    written,    \* what was appended, in order (history variable)
    sess,       \* the reads made since construction or the last readReset (history variable)
    rop         \* the last RiceBitVector operation and its arguments (history variable)

bitlVars == <<BOUND, Tree, TreeSize, Levels, Size, sequence, op, snap>>

riceVars == <<rice, looping, written, sess, rop>>

-----------------------------------------------------------------------------
(* Bounds of the model *)

\* largest array handed to the array constructor in SpecBitL
MaxN == 3
\* largest array handed to the array constructor in SpecBitLStatic
MaxStaticN == 5
\* largest array handed to the array constructor in SpecBitLCtor
MaxCtorN == 6
\* largest Size a push may reach
MaxSize == 5
\* number of add, push and pop calls in one behaviour of SpecBitL
MaxOps == 3
\* number of add calls in one behaviour of SpecBitLStatic
MaxStaticOps == 1

\* number of appendFixed and appendUnaryAll calls in one behaviour
MaxAppends == 4
\* number of readNext calls after construction or a readReset
MaxReads == 3
\* number of readReset, skipSubtree and fitData calls in one behaviour
MaxResets == 1
MaxSkips == 1
MaxFits == 1
\* largest number of codes one skipSubtree call skips
MaxSkipNodes == 3
\* number of append calls that fill the vector in SpecRiceReset, and in SpecRiceSkip
MaxBuild == 3
MaxSkipBuild == 2
\* number of push calls in one behaviour of SpecBitLPushed
MaxPushed == 3

\* number of calls in one behaviour of SpecRiceMixed
MaxMixedOps == 4
\* number of append calls in one behaviour of SpecRiceGrow
MaxGrowAppends == 3
\* number of readNext calls before the skipSubtree call in SpecRiceSkip
MaxPriorReads == 2

\* largest target handed to find and compFind
MaxTarget == 16

\* the values of the template parameter BOUND that are explored
Bounds == {1, 3}

-----------------------------------------------------------------------------
(* Bit primitives of support/common.hpp *)

WordBits == 64

Bit(mem, p) == IF p \in mem THEN 1 ELSE 0

RECURSIVE rho(_)
\* index of the lowest set bit, x # 0
rho(x) == IF x % 2 = 1 THEN 0 ELSE 1 + rho(x \div 2)

RECURSIVE lambda(_)
\* index of the highest set bit, x # 0
lambda(x) == IF x < 2 THEN 0 ELSE 1 + lambda(x \div 2)

mask_rho(x) == 2 ^ rho(x)

clear_rho(x) == x - mask_rho(x)

RECURSIVE ceil_log2_plus1(_)
\* the bit length of n: the smallest k >= 1 with 2^k > n
ceil_log2_plus1(n) == IF n < 2 THEN 1 ELSE 1 + ceil_log2_plus1(n \div 2)

min(a, b) == IF a < b THEN a ELSE b

RECURSIVE BitsValue(_, _, _)
\* the value of the len bits of mem that start at bit p
BitsValue(mem, p, len) ==
    IF len = 0 THEN 0 ELSE Bit(mem, p) + 2 * BitsValue(mem, p + 1, len - 1)

\* bitread(&v[byte], from, length): the field of length bits at bit 8*byte + from
bitread(mem, byte, from, length) == BitsValue(mem, 8 * byte + from, length)

RECURSIVE AddCarry(_, _, _, _)
\* mem with carry * 2^p added, in two's complement, carries out of bit limit-1 dropped
AddCarry(mem, p, carry, limit) ==
    IF carry = 0 \/ p >= limit THEN mem
    ELSE LET s == Bit(mem, p) + carry
         IN AddCarry(IF s % 2 = 1 THEN mem \cup {p} ELSE mem \ {p}, p + 1, s \div 2, limit)

\* bitwrite_inc(&v[byte], from, length, inc): the 64-bit word at byte gets inc << from
\* added (modulo 2^64); a negative inc arrives as its two's complement
bitwrite_inc(mem, byte, from, length, inc) ==
    AddCarry(mem, 8 * byte + from, inc, 8 * byte + WordBits)

-----------------------------------------------------------------------------
(* BitL *)

\* Vector<uint8_t> Tree[64]
NumTrees == 64
Heights == 0 .. (NumTrees - 1)

BOUNDSIZE(bound) == ceil_log2_plus1(bound)

\* Vector::resize(n): only the length changes; the bytes stay as they are, and
\* bytes never written are zero
resize(sizes, h, n) == [sizes EXCEPT ![h] = n]

EmptyTree == [h \in Heights |-> {}]
EmptySizes == [h \in Heights |-> 0]

\* the space the constructor gives to level i-1
CtorSpace(bs, size, i) == ((size + 2 ^ (i - 1)) \div (2 ^ i)) * (bs - 1 + i)

RECURSIVE CtorSizes(_, _, _, _, _)
CtorSizes(sizes, bs, size, i, levels) ==
    IF i > levels THEN sizes
    ELSE CtorSizes(resize(sizes, i - 1, CtorSpace(bs, size, i)), bs, size, i + 1, levels)

RECURSIVE CtorLowerUnshifted(_, _, _, _, _, _)
\* the inner loop without sequence_idx >>= 1
CtorLowerUnshifted(T, bs, sequence_idx, value, j, l) ==
    IF j >= l THEN value
    ELSE LET lowpos == (bs + j) * sequence_idx
         IN CtorLowerUnshifted(T, bs, sequence_idx,
                               value + bitread(T[j], lowpos \div 8, lowpos % 8, bs + j),
                               j + 1, l)

RECURSIVE CtorLower(_, _, _, _, _, _)
\* the inner loop over j < l: add the stored lower-level fields beneath the node
CtorLower(T, bs, sequence_idx, value, j, l) ==
    IF j >= l THEN value
    ELSE LET idx == sequence_idx \div 2
             lowpos == (bs + j) * idx
         IN CtorLower(T, bs, idx,
                      value + bitread(T[j], lowpos \div 8, lowpos % 8, bs + j), j + 1, l)

RECURSIVE CtorNodes(_, _, _, _, _, _)
\* the loop over the nodes of level l
CtorNodes(T, bs, seq, size, l, node) ==
    IF node > size THEN T
    ELSE LET value == CtorLower(T, bs, node - 1, seq[node], 0, l)
             highpos == (bs + l) * (node \div 2 ^ (l + 1))
             T2 == [T EXCEPT ![l] = bitwrite_inc(T[l], highpos \div 8, highpos % 8, bs + l, value)]
         IN CtorNodes(T2, bs, seq, size, l, node + 2 ^ (l + 1))

RECURSIVE CtorLevels(_, _, _, _, _, _)
\* the loop over the levels l < Levels
CtorLevels(T, bs, seq, size, l, levels) ==
    IF l >= levels THEN T
    ELSE CtorLevels(CtorNodes(T, bs, seq, size, l, 2 ^ l), bs, seq, size, l + 1, levels)

CtorLevelCount(size) == IF size # 0 THEN lambda(size) + 1 ELSE 1

\* BitL(uint64_t sequence[], size_t size)
BitLArray(bound, seq, size) ==
    LET levels == CtorLevelCount(size)
        bs == BOUNDSIZE(bound)
    IN [Tree |-> CtorLevels(EmptyTree, bs, seq, size, 0, levels),
        TreeSize |-> CtorSizes(EmptySizes, bs, size, 1, levels),
        Levels |-> levels,
        Size |-> size]

\* BitL()
BitLDefault == [Tree |-> EmptyTree, TreeSize |-> EmptySizes, Levels |-> 0, Size |-> 0]

RECURSIVE prefixLoop(_, _, _, _)
prefixLoop(T, bs, idx, sum) ==
    IF idx = 0 THEN sum
    ELSE LET height == rho(idx)
             pos == (idx \div 2 ^ (1 + height)) * (bs + height)
         IN prefixLoop(T, bs, clear_rho(idx),
                       sum + bitread(T[height], pos \div 8, pos % 8, bs + height))

\* prefix(idx) on the tree T
prefixOf(T, bs, idx) == prefixLoop(T, bs, idx, 0)

prefix(idx) == prefixOf(Tree, BOUNDSIZE(BOUND), idx)

RECURSIVE addLoop(_, _, _, _, _)
\* add(idx, inc) on the tree T of the given size
addLoop(T, bs, size, idx, inc) ==
    IF idx > size THEN T
    ELSE LET height == rho(idx)
             pos == (idx \div 2 ^ (1 + height)) * (bs + height)
             T2 == [T EXCEPT ![height] =
                        bitwrite_inc(T[height], pos \div 8, pos % 8, bs + height, inc)]
         IN addLoop(T2, bs, size, idx + mask_rho(idx), inc)

\* the value find() compares with at a level
findValue(T, bs, bound, height, pos) == bitread(T[height], pos \div 8, pos % 8, bs + height)

\* the value of compFind() without the shift of BOUND
compFindValueUnshifted(T, bs, bound, height, pos) ==
    bound - bitread(T[height], pos \div 8, pos % 8, bs + height)

\* the value compFind() compares with at a level
compFindValue(T, bs, bound, height, pos) ==
    (bound * 2 ^ height) - bitread(T[height], pos \div 8, pos % 8, bs + height)

\* the comparison as *val > value
ugt(val, value) == value >= 0 /\ val > value

\* val >= value between two uint64_t: a difference that came out negative has
\* wrapped to at least 2^63, above every val of the model
uge(val, value) == value >= 0 /\ val >= value

RECURSIVE findLoop(_, _, _, _, _, _, _, _, _)
\* the descent shared by find (comp = FALSE) and compFind (comp = TRUE); height = -1
\* stands for SIZE_MAX, where the loop ends
findLoop(T, sizes, bs, bound, comp, height, node, idx, val) ==
    IF height < 0 THEN [node |-> node, val |-> val]
    ELSE LET pos == idx * (bs + height)
         IN IF pos >= sizes[height]
            THEN findLoop(T, sizes, bs, bound, comp, height - 1, node, 2 * idx, val)
            ELSE LET value == IF comp THEN compFindValue(T, bs, bound, height, pos)
                                      ELSE findValue(T, bs, bound, height, pos)
                 IN IF uge(val, value)
                    THEN findLoop(T, sizes, bs, bound, comp, height - 1,
                                  node + 2 ^ height, 2 * idx + 1, val - value)
                    ELSE findLoop(T, sizes, bs, bound, comp, height - 1, node, 2 * idx, val)

\* find(&val): the index returned and the value left in val
find(val) ==
    LET r == findLoop(Tree, TreeSize, BOUNDSIZE(BOUND), BOUND, FALSE, Levels - 1, 0, 0, val)
    IN [ret |-> min(r.node, Size), val |-> r.val]

\* compFind(&val)
compFind(val) ==
    LET r == findLoop(Tree, TreeSize, BOUNDSIZE(BOUND), BOUND, TRUE, Levels - 1, 0, 0, val)
    IN [ret |-> min(r.node, Size), val |-> r.val]

RECURSIVE pushLoop(_, _, _, _, _, _)
\* the loop of push over h = height-1 .. 0
pushLoop(T, bs, height, hipos, h, idx) ==
    IF h < 0 THEN T
    ELSE LET lopos == (bs + h) * idx
             inc == bitread(T[h], lopos \div 8, lopos % 8, bs + h)
             T2 == [T EXCEPT ![height] =
                        bitwrite_inc(T[height], hipos \div 8, hipos % 8, bs + height, inc)]
         IN pushLoop(T2, bs, height, hipos, h - 1, 2 * idx + 1)

\* the Levels push computes
pushLevels(size) == lambda(size) + 1

\* push(val) on the tree st = [Tree, TreeSize, Levels, Size]
pushOf(st, bs, val) ==
    LET size == st.Size + 1
        height == rho(size)
        idx == size \div 2 ^ (1 + height)
        hipos == (bs + height) * idx
        sizes == resize(st.TreeSize, height, hipos \div 8 + 8)
        T1 == [st.Tree EXCEPT ![height] =
                   bitwrite_inc(st.Tree[height], hipos \div 8, hipos % 8, bs + height, val)]
    IN [Tree |-> pushLoop(T1, bs, height, hipos, height - 1, 2 * idx),
        TreeSize |-> sizes,
        Levels |-> pushLevels(size),
        Size |-> size]

\* the Levels pop leaves
popLevels(levels, size) == levels

\* pop() without Size--
popKeepsSize(st, bs) ==
    LET height == rho(st.Size)
        pos == (bs + height) * (st.Size \div 2 ^ (1 + height))
    IN [Tree |-> st.Tree,
        TreeSize |-> resize(st.TreeSize, height, pos \div 8),
        Levels |-> st.Levels,
        Size |-> st.Size]

\* pop() on the tree st, st.Size > 0
popOf(st, bs) ==
    LET height == rho(st.Size)
        pos == (bs + height) * (st.Size \div 2 ^ (1 + height))
    IN [Tree |-> st.Tree,
        TreeSize |-> resize(st.TreeSize, height, pos \div 8),
        Levels |-> popLevels(st.Levels, st.Size - 1),
        Size |-> st.Size - 1]

-----------------------------------------------------------------------------
(* RiceBitVector *)

\* 64-bit words are sets of bit positions in 0..63
Word64 == 0 .. (WordBits - 1)

\* the bits of the number n < 2^31
IntBits(n) == {b \in 0 .. 30 : (n \div 2 ^ b) % 2 = 1}

\* w >> n and (w << n) modulo 2^64, for n < 64
Shr(w, n) == {b - n : b \in {x \in w : x >= n}}
Shl(w, n) == {b + n : b \in {x \in w : x + n < WordBits}}

Least(w) == CHOOSE b \in w : \A c \in w : b <= c

\* rho of a nonzero 64-bit word: the position of its lowest set bit
rhoWord(w) == Least(w)

\* nu: the number of set bits
nu(w) == Cardinality(w)

RECURSIVE select64(_, _)
\* the position of the set bit of rank k (from 0)
select64(w, k) == IF k = 0 THEN Least(w) ELSE select64(w \ {Least(w)}, k - 1)

\* the 64-bit word read at byte offset byte of the buffer (little-endian host)
WordAtByte(data, byte) == {b \in Word64 : 8 * byte + b \in data}

\* data[i]
WordAt(data, i) == WordAtByte(data, 8 * i)

\* the buffer with data[i] = w
StoreWord(data, i, w) ==
    {b \in data : b < WordBits * i \/ b >= WordBits * (i + 1)} \cup {WordBits * i + b : b \in w}

\* DEFAULT_VECTSIZE is not used by the class; RiceBitVector() allocates 4 words
DefaultAllocWords == 4
WordBytes == 8

\* RiceBitVector(alloc_words)
RiceNew(alloc_words) ==
    [data |-> {},
     data_bytes |-> alloc_words * WordBytes,
     bit_count |-> 0,
     curr_fixed_offset |-> 0,
     curr_ptr_unary |-> 0,
     curr_window_unary |-> {},
     valid_lower_bits_unary |-> 0]

\* a shift by log2golomb = 64 is undefined: the hardware either takes the count
\* modulo 64 ("wrap": x << 64 = x) or shifts everything out ("zero": x << 64 = 0)
ShiftKinds == {"wrap", "zero"}

\* (uint64_t(1) << log2golomb) - 1
LowMask(log2golomb, ub) ==
    IF log2golomb < WordBits THEN 0 .. (log2golomb - 1)
    ELSE IF ub = "wrap" THEN {} ELSE Word64

\* result <<= log2golomb
ShlGolomb(w, log2golomb, ub) ==
    IF log2golomb < WordBits THEN Shl(w, log2golomb)
    ELSE IF ub = "wrap" THEN w ELSE {}

RECURSIVE readZeroWordsUncounted(_, _, _)
\* the loop without result += 64
readZeroWordsUncounted(data, ptr, result) ==
    LET window == WordAt(data, ptr)
    IN IF window = {} THEN readZeroWordsUncounted(data, ptr + 1, result)
       ELSE [ptr |-> ptr + 1, window |-> window, result |-> result]

RECURSIVE readZeroWords(_, _, _)
\* the loop of readNext over all-zero words: [ptr, window, result]
readZeroWords(data, ptr, result) ==
    LET window == WordAt(data, ptr)
    IN IF window = {} THEN readZeroWords(data, ptr + 1, result + WordBits)
       ELSE [ptr |-> ptr + 1, window |-> window, result |-> result]

\* the unary half of readNext: the cursor after it and the quotient
readUnary(R) ==
    LET refill == R.curr_window_unary = {}
        z == readZeroWords(R.data, R.curr_ptr_unary, R.valid_lower_bits_unary)
        ptr == IF refill THEN z.ptr ELSE R.curr_ptr_unary
        window == IF refill THEN z.window ELSE R.curr_window_unary
        valid == IF refill THEN WordBits ELSE R.valid_lower_bits_unary
        result == IF refill THEN z.result ELSE 0
        pos == rhoWord(window)
    IN [st |-> [R EXCEPT !.curr_ptr_unary = ptr,
                         !.curr_window_unary = Shr(Shr(window, pos), 1),
                         !.valid_lower_bits_unary = valid - (pos + 1)],
        quotient |-> result + pos]

\* the fixed half of readNext: (fixed >> curr_fixed_offset % 8) & mask
readFixed(R, log2golomb, ub) ==
    LET fixed == WordAtByte(R.data, R.curr_fixed_offset \div 8)
    IN Shr(fixed, R.curr_fixed_offset % 8) \cap LowMask(log2golomb, ub)

\* readNext(log2golomb): the vector after it and the value returned
readNext(R, log2golomb, ub) ==
    LET u == readUnary(R)
    IN [st |-> [u.st EXCEPT !.curr_fixed_offset = @ + log2golomb],
        ret |-> ShlGolomb(IntBits(u.quotient), log2golomb, ub)
                    \cup readFixed(R, log2golomb, ub)]

RECURSIVE skipWords(_, _, _, _, _)
\* the loop of skipSubtree: [ptr, window, valid, missing]
skipWords(data, ptr, window, valid, missing) ==
    IF nu(window) < missing
    THEN skipWords(data, ptr + 1, WordAt(data, ptr), WordBits, missing - nu(window))
    ELSE [ptr |-> ptr, window |-> window, valid |-> valid, missing |-> missing]

\* skipSubtree without the shift over the terminating bit
skipSubtreeKeepsTerminator(R, nodes, fixed_len) ==
    LET s == skipWords(R.data, R.curr_ptr_unary, R.curr_window_unary,
                       R.valid_lower_bits_unary, nodes)
        cnt == select64(s.window, s.missing - 1)
    IN [R EXCEPT !.curr_ptr_unary = s.ptr,
                 !.curr_window_unary = Shr(s.window, cnt),
                 !.valid_lower_bits_unary = s.valid - cnt,
                 !.curr_fixed_offset = @ + fixed_len]

\* skipSubtree(nodes, fixed_len)
skipSubtree(R, nodes, fixed_len) ==
    LET s == skipWords(R.data, R.curr_ptr_unary, R.curr_window_unary,
                       R.valid_lower_bits_unary, nodes)
        cnt == select64(s.window, s.missing - 1)
    IN [R EXCEPT !.curr_ptr_unary = s.ptr,
                 !.curr_window_unary = Shr(Shr(s.window, cnt), 1),
                 !.valid_lower_bits_unary = s.valid - (cnt + 1),
                 !.curr_fixed_offset = @ + fixed_len]

\* readReset(bit_pos, unary_offset)
readReset(R, bit_pos, unary_offset) ==
    LET unary_pos == bit_pos + unary_offset
    IN [R EXCEPT !.curr_fixed_offset = bit_pos,
                 !.curr_ptr_unary = unary_pos \div WordBits + 1,
                 !.curr_window_unary =
                     Shr(WordAt(R.data, unary_pos \div WordBits), unary_pos % WordBits),
                 !.valid_lower_bits_unary = WordBits - (unary_pos % WordBits)]

\* the bits of the bytes from..to-1
ByteRange(from, to) == {b \in 0 .. (8 * to - 1) : b >= 8 * from}

\* the capacity test of both growth loops
NeedsGrowth(data_bytes, total_bits) ==
    ((total_bits + 63) \div WordBits) * WordBytes + 7 > data_bytes

RECURSIVE growLoop(_, _, _)
\* the growth loop of appendFixed and appendUnaryAll, for data_bytes > 0: realloc to
\* twice the size keeps the old bytes, memset zeroes data_bytes bytes from word
\* data_bytes / 8 on, and the bytes past that are uninitialized: all clear or all
\* set, as garbage says. curr_ptr_unary keeps its offset.
growLoop(R, total_bits, garbage) ==
    IF NeedsGrowth(R.data_bytes, total_bits)
    THEN LET zeroFrom == (R.data_bytes \div WordBytes) * WordBytes
             zeroTo == zeroFrom + R.data_bytes
             kept == R.data \ ByteRange(zeroFrom, zeroTo)
             fresh == IF garbage THEN ByteRange(zeroTo, 2 * R.data_bytes) ELSE {}
         IN growLoop([R EXCEPT !.data = kept \cup fresh, !.data_bytes = 2 * @],
                     total_bits, garbage)
    ELSE R

\* appendFixed without the store into the next word
appendFixedNoSpill(R, v, log2golomb, ub) ==
    LET lower_bits == v \cap LowMask(log2golomb, ub)
        used_bits == R.bit_count % WordBits
        i == R.bit_count \div WordBits
        cur_word == WordAt(R.data, i) \cup Shl(lower_bits, used_bits)
    IN [R EXCEPT !.data = StoreWord(R.data, i, cur_word), !.bit_count = @ + log2golomb]

\* appendFixed(v, log2golomb), once the buffer is large enough
appendFixedBits(R, v, log2golomb, ub) ==
    LET lower_bits == v \cap LowMask(log2golomb, ub)
        used_bits == R.bit_count % WordBits
        i == R.bit_count \div WordBits
        cur_word == WordAt(R.data, i) \cup Shl(lower_bits, used_bits)
        data1 == StoreWord(R.data, i, cur_word)
        data2 == IF used_bits + log2golomb > WordBits
                 THEN StoreWord(data1, i + 1, Shr(lower_bits, WordBits - used_bits))
                 ELSE data1
    IN [R EXCEPT !.data = data2, !.bit_count = @ + log2golomb]

\* appendFixed(v, log2golomb), for data_bytes > 0
appendFixed(R, v, log2golomb, ub, garbage) ==
    appendFixedBits(growLoop(R, R.bit_count + log2golomb, garbage), v, log2golomb, ub)

RECURSIVE SumSeq(_)
SumSeq(q) == IF q = <<>> THEN 0 ELSE Head(q) + SumSeq(Tail(q))

RECURSIVE appendUnaryBitsNoStep(_, _)
\* the second loop of appendUnaryAll without ++bit_count
appendUnaryBitsNoStep(R, unary) ==
    IF unary = <<>> THEN R
    ELSE LET at == R.bit_count + Head(unary)
         IN appendUnaryBitsNoStep([R EXCEPT !.data = @ \cup {at}, !.bit_count = at],
                                  Tail(unary))

RECURSIVE appendUnaryBits(_, _)
\* the second loop of appendUnaryAll: u zero bits, then a set bit
appendUnaryBits(R, unary) ==
    IF unary = <<>> THEN R
    ELSE LET at == R.bit_count + Head(unary)
         IN appendUnaryBits([R EXCEPT !.data = @ \cup {at}, !.bit_count = at + 1],
                            Tail(unary))

\* appendUnaryAll(unary), for data_bytes > 0
appendUnaryAll(R, unary, garbage) ==
    LET bit_inc == SumSeq(unary) + Len(unary)
    IN appendUnaryBits(growLoop(R, R.bit_count + bit_inc, garbage), unary)

\* getBits()
getBits(R) == R.bit_count

\* fitData without the 7 bytes after the last word
fitDataNoSlack(R, garbage) ==
    LET bytes == ((R.bit_count + 63) \div WordBits) * WordBytes
        kept == R.data \cap ByteRange(0, min(bytes, R.data_bytes))
        fresh == IF garbage /\ bytes > R.data_bytes
                 THEN ByteRange(R.data_bytes, bytes) ELSE {}
    IN [R EXCEPT !.data = kept \cup fresh, !.data_bytes = bytes, !.curr_ptr_unary = 0]

\* fitData(): realloc to the fitted size; bytes gained are uninitialized
fitData(R, garbage) ==
    LET bytes == ((R.bit_count + 63) \div WordBits) * WordBytes + 7
        kept == R.data \cap ByteRange(0, min(bytes, R.data_bytes))
        fresh == IF garbage /\ bytes > R.data_bytes
                 THEN ByteRange(R.data_bytes, bytes) ELSE {}
    IN [R EXCEPT !.data = kept \cup fresh, !.data_bytes = bytes, !.curr_ptr_unary = 0]

-----------------------------------------------------------------------------
(* The BitL state machine *)

This == [Tree |-> Tree, TreeSize |-> TreeSize, Levels |-> Levels, Size |-> Size]

\* op: the last operation (name), for a pop whether a push came right before it
\* (prev), the add/push/pop calls the behaviour may still make (n), and for a
\* query its argument (t), the value returned (ret) and the value left in the
\* mutable argument (val)
Op(name, prev, n, t, ret, val) ==
    [name |-> name, prev |-> prev, n |-> n, t |-> t, ret |-> ret, val |-> val]

NoSnap == [size |-> 0, prefix |-> <<>>]

\* the arrays of n values in 0..bound
Arrays(bound, n) == [1 .. n -> 0 .. bound]

\* the state after BitL(seq, n), with ops calls of add, push and pop to come
Constructed(bound, seq, n, ops) ==
    LET st == BitLArray(bound, seq, n)
    IN /\ BOUND = bound
       /\ Tree = st.Tree
       /\ TreeSize = st.TreeSize
       /\ Levels = st.Levels
       /\ Size = st.Size
       /\ sequence = seq
       /\ op = Op("ctor", "none", ops, 0, 0, 0)
       /\ snap = NoSnap

\* the state after BitL()
DefaultConstructed(bound, ops) ==
    /\ BOUND = bound
    /\ Tree = BitLDefault.Tree
    /\ TreeSize = BitLDefault.TreeSize
    /\ Levels = BitLDefault.Levels
    /\ Size = BitLDefault.Size
    /\ sequence = <<>>
    /\ op = Op("default", "none", ops, 0, 0, 0)
    /\ snap = NoSnap

\* the sequence of the documented example, for BOUND = 15
Example == [bound |-> 15, sequence |-> <<3, 1, 4, 1, 5, 9, 2, 6>>, delta |-> 10]

\* prefix, find and compFind leave the tree alone: a behaviour is a run of add,
\* push and pop, observed by at most one query at its end
Querying == op.name \in {"prefix", "find", "compFind"}

\* the increments add is called with
Deltas == IF BOUND = Example.bound THEN {-Example.delta, Example.delta} ELSE {-1, 1}

\* add(i, d), for 1 <= i <= Size and an element that stays in [0, BOUND]
Add(i, d) ==
    /\ ~Querying
    /\ op.n > 0
    /\ i \in 1 .. Size
    /\ sequence[i] + d \in 0 .. BOUND
    /\ Tree' = addLoop(Tree, BOUNDSIZE(BOUND), Size, i, d)
    /\ sequence' = [sequence EXCEPT ![i] = @ + d]
    /\ op' = Op("add", "none", op.n - 1, 0, 0, 0)
    /\ UNCHANGED <<BOUND, TreeSize, Levels, Size, snap>>

\* the values push is called with
PushValues == {0, 1, BOUND}

\* push(v), for v in [0, BOUND]
Push(v) ==
    /\ ~Querying
    /\ op.n > 0
    /\ Size < MaxSize
    /\ LET st == pushOf(This, BOUNDSIZE(BOUND), v)
       IN /\ Tree' = st.Tree
          /\ TreeSize' = st.TreeSize
          /\ Levels' = st.Levels
          /\ Size' = st.Size
    /\ sequence' = Append(sequence, v)
    /\ snap' = [size |-> Size, prefix |-> [i \in 0 .. Size |-> prefix(i)]]
    /\ op' = Op("push", "none", op.n - 1, 0, 0, 0)
    /\ UNCHANGED BOUND

\* pop(), for Size > 0
Pop ==
    /\ ~Querying
    /\ op.n > 0
    /\ Size > 0
    /\ LET st == popOf(This, BOUNDSIZE(BOUND))
       IN /\ Tree' = st.Tree
          /\ TreeSize' = st.TreeSize
          /\ Levels' = st.Levels
          /\ Size' = st.Size
    /\ sequence' = SubSeq(sequence, 1, Size - 1)
    /\ op' = Op("pop", IF op.name = "push" THEN "push" ELSE "other", op.n - 1, 0, 0, 0)
    /\ UNCHANGED <<BOUND, snap>>

\* the targets find and compFind are called with
Targets == 0 .. min(Size * BOUND, MaxTarget)

\* prefix(i), for 0 <= i <= Size
Prefix(i) ==
    /\ ~Querying
    /\ i \in 0 .. Size
    /\ op' = Op("prefix", "none", op.n, i, prefix(i), 0)
    /\ UNCHANGED <<BOUND, Tree, TreeSize, Levels, Size, sequence, snap>>

\* find(&t): the index returned and the residual left in t are recorded
Find(t) ==
    /\ ~Querying
    /\ LET r == find(t)
       IN op' = Op("find", "none", op.n, t, r.ret, r.val)
    /\ UNCHANGED <<BOUND, Tree, TreeSize, Levels, Size, sequence, snap>>

\* compFind(&t)
CompFind(t) ==
    /\ ~Querying
    /\ LET r == compFind(t)
       IN op' = Op("compFind", "none", op.n, t, r.ret, r.val)
    /\ UNCHANGED <<BOUND, Tree, TreeSize, Levels, Size, sequence, snap>>

-----------------------------------------------------------------------------
(* The RiceBitVector state machine *)

Item(kind, len, v, w) == [kind |-> kind, len |-> len, v |-> v, w |-> w]

RECURSIVE UnaryItems(_)
UnaryItems(unary) ==
    IF unary = <<>> THEN <<>>
    ELSE <<Item("u", Head(unary), {}, 0)>> \o UnaryItems(Tail(unary))

\* rop: the last operation (name), its arguments (a, b), and the calls made so far
ROp(name, a, b, appends, resets, skips, fits) ==
    [name |-> name, a |-> a, b |-> b,
     appends |-> appends, resets |-> resets, skips |-> skips, fits |-> fits]

FreshSession == [kind |-> "fresh", p |-> 0, o |-> 0, reads |-> <<>>]

\* the state after RiceBitVector(alloc_words)
RiceConstructed(alloc_words) ==
    /\ rice = RiceNew(alloc_words)
    /\ looping = FALSE
    /\ written = <<>>
    /\ sess = FreshSession
    /\ rop = ROp("new", alloc_words, 0, 0, 0, 0, 0)

\* the capacities the vector is constructed with: none, one word, the default
AllocWords == {0, 1, DefaultAllocWords}

\* no read, reset, skip or fit has been made yet
Building == sess = FreshSession /\ rop.skips = 0 /\ rop.fits = 0

\* uninitialized bytes appear only when the capacity is no whole number of words
Garbages == IF rice.data_bytes % WordBytes = 0 THEN {FALSE} ELSE BOOLEAN

\* an append after a read or a reset may change a word the window already holds
SessionAfterAppend == IF Building THEN sess ELSE [sess EXCEPT !.kind = "none"]

\* appendFixed(v, w); with no capacity at all the growth loop doubles 0 for ever
AppendFixed(v, w) ==
    /\ ~looping
    /\ rop.appends < MaxAppends
    /\ \/ /\ rice.data_bytes = 0
          /\ looping' = TRUE
          /\ UNCHANGED <<rice, written, sess>>
       \/ /\ rice.data_bytes > 0
          /\ \E ub \in (IF w < WordBits THEN {"wrap"} ELSE ShiftKinds) :
                \E garbage \in Garbages :
                    rice' = appendFixed(rice, v, w, ub, garbage)
          /\ written' = Append(written, Item("f", 0, v, w))
          /\ sess' = SessionAfterAppend
          /\ UNCHANGED looping
    /\ rop' = ROp("appendFixed", w, 0, rop.appends + 1, rop.resets, rop.skips, rop.fits)

\* appendUnaryAll(unary)
AppendUnaryAll(unary) ==
    /\ ~looping
    /\ rop.appends < MaxAppends
    /\ \/ /\ rice.data_bytes = 0
          /\ looping' = TRUE
          /\ UNCHANGED <<rice, written, sess>>
       \/ /\ rice.data_bytes > 0
          /\ \E garbage \in Garbages : rice' = appendUnaryAll(rice, unary, garbage)
          /\ written' = written \o UnaryItems(unary)
          /\ sess' = SessionAfterAppend
          /\ UNCHANGED looping
    /\ rop' = ROp("appendUnaryAll", Len(unary), 0,
                  rop.appends + 1, rop.resets, rop.skips, rop.fits)

\* the terminating bits ahead of the unary cursor: those left in the window and
\* those written to the words the cursor has not yet loaded
CodesAheadOf(R) ==
    nu(R.curr_window_unary)
        + Cardinality({b \in R.data : b >= WordBits * R.curr_ptr_unary /\ b < R.bit_count})

\* the 8 bytes readNext copies lie inside the buffer
FixedReadable(R) == R.curr_fixed_offset \div 8 + WordBytes <= R.data_bytes

\* readNext(w), called while a code is left to decode
ReadNext(w) ==
    /\ ~looping
    /\ Len(sess.reads) < MaxReads
    /\ CodesAheadOf(rice) >= 1
    /\ FixedReadable(rice)
    /\ \E ub \in (IF w < WordBits THEN {"wrap"} ELSE ShiftKinds) :
          LET r == readNext(rice, w, ub)
          IN /\ rice' = r.st
             /\ sess' = [sess EXCEPT !.reads = Append(@, [w |-> w, ret |-> r.ret])]
    /\ rop' = ROp("readNext", w, 0, rop.appends, rop.resets, rop.skips, rop.fits)
    /\ UNCHANGED <<looping, written>>

\* skipSubtree(nodes, fixed_len), called while nodes codes are left
SkipSubtree(nodes, fixed_len) ==
    /\ ~looping
    /\ rop.skips < MaxSkips
    /\ nodes > 0
    /\ CodesAheadOf(rice) >= nodes
    /\ rice' = skipSubtree(rice, nodes, fixed_len)
    /\ sess' = [sess EXCEPT !.kind = "none"]
    /\ rop' = ROp("skipSubtree", nodes, fixed_len,
                  rop.appends, rop.resets, rop.skips + 1, rop.fits)
    /\ UNCHANGED <<looping, written>>

RECURSIVE ItemStarts(_, _)
\* the bit positions at which the items of a list start, and the position after them
ItemStarts(items, at) ==
    IF items = <<>> THEN {at}
    ELSE {at} \cup ItemStarts(Tail(items),
                              at + (IF Head(items).kind = "u" THEN Head(items).len + 1
                                    ELSE Head(items).w))

\* the positions readReset is called with: the starts of the appended items
ResetPositions == ItemStarts(written, 0)

\* readReset(bit_pos, unary_offset), inside what was written
ReadReset(bit_pos, unary_offset) ==
    /\ ~looping
    /\ rop.resets < MaxResets
    /\ bit_pos + unary_offset < rice.bit_count
    /\ rice' = readReset(rice, bit_pos, unary_offset)
    /\ sess' = [kind |-> "reset", p |-> bit_pos, o |-> unary_offset, reads |-> <<>>]
    /\ rop' = ROp("readReset", bit_pos, unary_offset,
                  rop.appends, rop.resets + 1, rop.skips, rop.fits)
    /\ UNCHANGED <<looping, written>>

\* fitData()
FitData ==
    /\ ~looping
    /\ rop.fits < MaxFits
    /\ \E garbage \in BOOLEAN : rice' = fitData(rice, garbage)
    /\ sess' = [sess EXCEPT !.kind = "none"]
    /\ rop' = ROp("fitData", 0, 0, rop.appends, rop.resets, rop.skips, rop.fits + 1)
    /\ UNCHANGED <<looping, written>>

-----------------------------------------------------------------------------
(* Specifications of BitL *)

vars == <<bitlVars, riceVars>>

\* the vector is left as constructed while the tree is exercised
RiceIdle == RiceConstructed(DefaultAllocWords)

\* a tree made by either constructor
InitBitL ==
    /\ RiceIdle
    /\ \E bound \in Bounds :
        \/ DefaultConstructed(bound, MaxOps)
        \/ \E n \in 0 .. MaxN : \E seq \in Arrays(bound, n) :
               Constructed(bound, seq, n, MaxOps)

StepBitL ==
    \/ \E i \in 1 .. MaxSize : \E d \in Deltas : Add(i, d)
    \/ \E v \in PushValues : Push(v)
    \/ Pop

NextBitL == StepBitL /\ UNCHANGED riceVars

\* add, push and pop in any order, from either constructor
SpecBitL == InitBitL /\ [][NextBitL]_vars

\* a tree made by the array constructor, also from the example sequence
InitBitLStatic ==
    /\ RiceIdle
    /\ \/ \E bound \in Bounds : \E n \in 0 .. MaxStaticN :
              \E seq \in Arrays(bound, n) :
              Constructed(bound, seq, n, MaxStaticOps)
       \/ Constructed(Example.bound, Example.sequence, Len(Example.sequence), MaxStaticOps)

StepBitLStatic ==
    \/ \E i \in 1 .. Len(Example.sequence) : \E d \in Deltas : Add(i, d)
    \/ \E i \in 0 .. Len(Example.sequence) : Prefix(i)
    \/ \E t \in Targets : Find(t)
    \/ \E t \in Targets : CompFind(t)

NextBitLStatic == StepBitLStatic /\ UNCHANGED riceVars

\* the array constructor, add and the queries: no push, no pop
SpecBitLStatic == InitBitLStatic /\ [][NextBitLStatic]_vars

\* a tree made by the array constructor
InitBitLCtor ==
    /\ RiceIdle
    /\ \E bound \in Bounds : \E n \in 0 .. MaxCtorN : \E seq \in Arrays(bound, n) :
           Constructed(bound, seq, n, 0)

NextBitLCtor == (\E i \in 0 .. MaxCtorN : Prefix(i)) /\ UNCHANGED riceVars

\* the array constructor and prefix
SpecBitLCtor == InitBitLCtor /\ [][NextBitLCtor]_vars

\* an empty tree
InitBitLPushed == RiceIdle /\ \E bound \in Bounds : DefaultConstructed(bound, MaxPushed)

StepBitLPushed ==
    \/ \E v \in PushValues : Push(v)
    \/ \E i \in 0 .. MaxPushed : Prefix(i)
    \/ \E t \in Targets : Find(t)
    \/ \E t \in Targets : CompFind(t)

NextBitLPushed == StepBitLPushed /\ UNCHANGED riceVars

\* values are pushed one at a time onto an empty tree, which is then queried
SpecBitLPushed == InitBitLPushed /\ [][NextBitLPushed]_vars

-----------------------------------------------------------------------------
(* Specifications of RiceBitVector *)

\* the tree is left as constructed while the vector is exercised
BitLIdle == DefaultConstructed(1, 0)

InitRice == BitLIdle /\ \E a \in AllocWords : RiceConstructed(a)

\* the batches appendUnaryAll is called with: the documented example, a code that
\* ends on the last bit of a word, codes that span one and two all-zero words
RiceExample == [unary |-> <<1, 0, 6>>, fixed |-> <<2, 3, 2>>, width |-> 3]
UnaryBatches == {RiceExample.unary, <<0>>, <<63>>, <<64>>, <<130>>}

\* the values and widths appendFixed is called with: the remainders of the
\* documented example, and fields of all ones of the two largest widths
ExampleFixed ==
    {<<IntBits(RiceExample.fixed[i]), RiceExample.width>> : i \in 1 .. Len(RiceExample.fixed)}
WideWidth == WordBits - 1
WideFixed == {<<LowMask(WideWidth, "wrap"), WideWidth>>, <<Word64, WordBits>>}

FixedItems == SelectSeq(written, LAMBDA it : it.kind = "f")
UnaryItemsWritten == SelectSeq(written, LAMBDA it : it.kind = "u")

\* the items appended so far are some of kind first and then some of the other kind
KindsInOrder(first) ==
    \A i \in 1 .. Len(written) : \A j \in 1 .. Len(written) :
        (i < j /\ written[j].kind = first) => written[i].kind = first

\* the width the caller's protocol reads the next code with: that of the next
\* fixed field appended, and 0 when only unary codes were appended
ProtocolWidths ==
    IF Len(FixedItems) = 0 THEN {0}
    ELSE IF Len(sess.reads) < Len(FixedItems) THEN {FixedItems[Len(sess.reads) + 1].w}
    ELSE {}

\* where the unary codes start when all fixed fields were appended first
FixedBits == SumSeq([i \in 1 .. Len(FixedItems) |-> FixedItems[i].w])

StepRiceCodec ==
    \/ /\ Building
       /\ KindsInOrder("f")
       /\ \E unary \in UnaryBatches : AppendUnaryAll(unary)
    \/ /\ Building
       /\ KindsInOrder("u")
       /\ \E f \in ExampleFixed \cup WideFixed : AppendFixed(f[1], f[2])
    \/ /\ Building
       /\ KindsInOrder("f") /\ Len(FixedItems) > 0
       /\ ReadReset(0, FixedBits)
    \/ \E w \in ProtocolWidths : ReadNext(w)

NextRiceCodec == StepRiceCodec /\ UNCHANGED bitlVars

\* a new vector is filled with the codes of one kind, then with those of the other
\* kind, and is decoded with the widths it was filled with, from its initial
\* cursors or after readReset(0, the bits of the fixed fields)
SpecRiceCodec == InitRice /\ [][NextRiceCodec]_vars

\* what the vectors of SpecRiceSkip and SpecRiceReset are filled with
BuildFixed == {<<IntBits(3), RiceExample.width>>, <<LowMask(WideWidth, "wrap"), WideWidth>>}
Filling == Building /\ rop.appends < MaxBuild
FillingToSkip == Building /\ rop.appends < MaxSkipBuild

\* the positions readReset is called with in these specifications
ResetPairs == {pq \in ResetPositions \X ResetPositions : pq[1] <= pq[2]}

StepRiceSkip ==
    \/ FillingToSkip /\ \E unary \in UnaryBatches : AppendUnaryAll(unary)
    \/ FillingToSkip /\ \E f \in BuildFixed : AppendFixed(f[1], f[2])
    \/ Building /\ \E q \in ResetPositions : ReadReset(0, q)
    \/ rop.skips = 0 /\ Len(sess.reads) < MaxPriorReads
          /\ \E w \in {0, RiceExample.width} : ReadNext(w)
    \/ \E nodes \in 1 .. MaxSkipNodes : SkipSubtree(nodes, RiceExample.width)

NextRiceSkip == StepRiceSkip /\ UNCHANGED bitlVars

\* a new vector is filled, perhaps repositioned and read, and then skipped over
SpecRiceSkip == InitRice /\ [][NextRiceSkip]_vars

\* the widths a run of readNext calls is made with after a readReset
ReadWidths == {0, RiceExample.width, WideWidth}

\* every readNext call of a run is made with the width of the first
SessionWidths == IF sess.reads = <<>> THEN ReadWidths ELSE {sess.reads[1].w}

\* no cursor operation was made yet
Untouched == Building /\ sess.reads = <<>>

StepRiceReset ==
    \/ Filling /\ \E unary \in UnaryBatches : AppendUnaryAll(unary)
    \/ Filling /\ \E f \in BuildFixed : AppendFixed(f[1], f[2])
    \/ Untouched /\ \E w \in {0, RiceExample.width} : ReadNext(w)
    \/ Untouched /\ \E nodes \in 1 .. MaxSkipNodes : SkipSubtree(nodes, RiceExample.width)
    \/ Untouched /\ FitData
    \/ \E pq \in ResetPairs : ReadReset(pq[1], pq[2] - pq[1])
    \/ /\ sess.kind = "reset"
       /\ \E w \in SessionWidths : ReadNext(w)

NextRiceReset == StepRiceReset /\ UNCHANGED bitlVars

\* a new vector is filled, its cursors are perhaps moved by one read, skip or fit,
\* and it is then repositioned and read with one width
SpecRiceReset == InitRice /\ [][NextRiceReset]_vars

\* what the vectors of SpecRiceMixed and SpecRiceGrow are filled with
GrowUnary == {RiceExample.unary, <<0>>, <<130>>}

\* the calls made so far, but for the readNext calls a readReset came after
MixedOps == rop.appends + rop.resets + rop.skips + rop.fits + Len(sess.reads)
Mixing == MixedOps < MaxMixedOps

StepRiceMixed ==
    \/ Mixing /\ \E unary \in GrowUnary : AppendUnaryAll(unary)
    \/ Mixing /\ \E f \in BuildFixed \cup {<<Word64, WordBits>>} : AppendFixed(f[1], f[2])
    \/ Mixing /\ \E w \in {0, RiceExample.width} : ReadNext(w)
    \/ Mixing /\ \E nodes \in 1 .. MaxSkipNodes : SkipSubtree(nodes, RiceExample.width)
    \/ Mixing /\ \E pq \in ResetPairs : ReadReset(pq[1], pq[2] - pq[1])
    \/ Mixing /\ FitData

NextRiceMixed == StepRiceMixed /\ UNCHANGED bitlVars

\* the operations of a vector in any order
SpecRiceMixed == InitRice /\ [][NextRiceMixed]_vars

Growing == rop.appends < MaxGrowAppends

StepRiceGrow ==
    \/ Growing /\ \E unary \in GrowUnary : AppendUnaryAll(unary)
    \/ Growing /\ \E f \in BuildFixed : AppendFixed(f[1], f[2])
    \/ FitData

NextRiceGrow == StepRiceGrow /\ UNCHANGED bitlVars

\* a vector of any initial capacity is filled, and fitted before, between or after
\* the appends
SpecRiceGrow == InitRice /\ [][NextRiceGrow]_vars

\* no reset, skip or read was made yet
Unread == rop.resets = 0 /\ rop.skips = 0 /\ sess.reads = <<>>

StepRiceFit ==
    \/ FillingToSkip /\ \E unary \in GrowUnary : AppendUnaryAll(unary)
    \/ FillingToSkip /\ \E f \in BuildFixed : AppendFixed(f[1], f[2])
    \/ Untouched /\ FitData
    \/ Unread /\ \E pq \in ResetPairs : ReadReset(pq[1], pq[2] - pq[1])
    \/ Unread /\ \E nodes \in 1 .. MaxSkipNodes : SkipSubtree(nodes, RiceExample.width)
    \/ \E w \in SessionWidths : ReadNext(w)

NextRiceFit == StepRiceFit /\ UNCHANGED bitlVars

\* a new vector is filled, perhaps fitted, perhaps repositioned, and then read
SpecRiceFit == InitRice /\ [][NextRiceFit]_vars

-----------------------------------------------------------------------------
(* Claims about BitL *)

RECURSIVE FloorLog2(_)
FloorLog2(n) == IF n <= 1 THEN 0 ELSE 1 + FloorLog2(n \div 2)

RECURSIVE Sum(_, _)
\* seq[1] + ... + seq[i]
Sum(seq, i) == IF i = 0 THEN 0 ELSE Sum(seq, i - 1) + seq[i]

\* C1: on the tree built by BitL(A, n), prefix(i) returns A[1] + ... + A[i], for
\* every i in 0..n and every n, a power of two or not
C1_CtorPrefixSums ==
    /\ op.name = "ctor" => \A i \in 0 .. Size : prefix(i) = Sum(sequence, i)
    /\ op.name = "prefix" => op.ret = Sum(sequence, op.t)

C1_Witness ==
    /\ op.name = "prefix" /\ BOUND = 3 /\ Size = 6 /\ op.t = 5
    /\ sequence = <<3, 0, 2, 3, 1, 3>>
    /\ op.ret = 9

\* the index add was called with in the step, and its increment
AddedAt == CHOOSE i \in 1 .. Size : sequence'[i] # sequence[i]
AddedDelta == sequence'[AddedAt] - sequence[AddedAt]

\* C2: add(i, d) raises prefix(j) by d for every j >= i and leaves it for j < i
C2_AddShiftsPrefixes ==
    [][op'.name = "add" =>
          \A j \in 0 .. Size :
              prefixOf(Tree', BOUNDSIZE(BOUND), j)
                  = prefix(j) + (IF j >= AddedAt THEN AddedDelta ELSE 0)]_vars

\* C2, the example: prefix(4) = 9 on <<3,1,4,1,5,9,2,6>>, and after add(3, 10)
\* prefix(4) = 19 and prefix(2) = 4
C2_Example ==
    /\ (op.name = "ctor" /\ BOUND = Example.bound) => prefix(4) = 9
    /\ (op.name = "add" /\ sequence = [Example.sequence EXCEPT ![3] = 14])
           => (prefix(4) = 19 /\ prefix(2) = 4)

C2_ExampleReached == op.name = "add" /\ sequence = [Example.sequence EXCEPT ![3] = 14]

\* C3 as stated: for S(k-1) <= t < S(k), find(t) returns k and leaves t - S(k-1)
C3_FindReturnsK ==
    op.name = "find" =>
        \A k \in 1 .. Size :
            (prefix(k - 1) <= op.t /\ op.t < prefix(k))
                => (op.ret = k /\ op.val = op.t - prefix(k - 1))

\* C3 amended: on a tree built by the constructor and updated by add, for
\* S(k-1) <= t < S(k), find(t) returns k-1 and leaves t - S(k-1)
C3_FindReturnsPredecessor ==
    op.name = "find" =>
        \A k \in 1 .. Size :
            (prefix(k - 1) <= op.t /\ op.t < prefix(k))
                => (op.ret = k - 1 /\ op.val = op.t - prefix(k - 1))

C3_Witness ==
    /\ op.name = "find" /\ Size = 5 /\ op.ret = 4 /\ op.val = 1
    /\ prefix(4) < op.t /\ op.t < prefix(5)

\* C4: after any run of push, pop and add, prefix(i) is the sum of the first i
\* elements of the logical sequence, for every i in 0..Size
C4_PrefixIsSum == \A i \in 0 .. Size : prefix(i) = Sum(sequence, i)

\* C5: push(v) immediately followed by pop() restores size() and every prefix(i)
C5_PushPopRestores ==
    (op.name = "pop" /\ op.prev = "push") =>
        /\ Size = snap.size
        /\ \A i \in 0 .. Size : prefix(i) = snap.prefix[i]

C5_Witness ==
    /\ op.name = "pop" /\ op.prev = "push" /\ Size = 3 /\ prefix(3) > prefix(2)
    /\ prefix(2) > 0

\* C10: Levels = floor(log2(Size)) + 1 when Size > 0, and 0 when Size = 0
C10_LevelsOfSize == Levels = (IF Size > 0 THEN FloorLog2(Size) + 1 ELSE 0)

-----------------------------------------------------------------------------
(* Claims about RiceBitVector *)

\* the j-th quotient and the j-th remainder appended, and the remainder's width
Quotient(j) == UnaryItemsWritten[j].len
Remainder(j) == FixedItems[j].v
FixedWidth(j) == FixedItems[j].w

\* (quotient << width) | remainder, in 64 bits
Code(quotient, remainder, width) ==
    (IF width < WordBits THEN Shl(IntBits(quotient), width) ELSE {}) \cup remainder

\* the value the j-th readNext call since construction or readReset returned
Decoded(j) == sess.reads[j].ret

\* the bit at which the j-th fixed field starts when the fixed fields come first
FieldStart(j) == SumSeq([i \in 1 .. (j - 1) |-> FixedWidth(i)])

\* the field is inside the 8 bytes readNext copies from the byte of its first bit
FieldInWindow(start, width) == width < WordBits /\ (start % 8) + width <= WordBits

\* C6 as stated: on a new vector, the quotients appended with appendUnaryAll, then
\* the remainders with appendFixed, the j-th readNext(width) returns
\* (quotient << width) | remainder of the j-th triple
C6_RoundTrip ==
    (sess.kind = "fresh" /\ KindsInOrder("u")
        /\ Len(FixedItems) = Len(UnaryItemsWritten))
    => \A j \in 1 .. Len(sess.reads) :
           Decoded(j) = Code(Quotient(j), Remainder(j), FixedWidth(j))

\* C6 amended: on a new vector, the remainders appended with appendFixed, then the
\* quotients with appendUnaryAll, after readReset(0, the sum of the widths) the
\* j-th readNext(width) returns (quotient << width) | remainder of the j-th
\* triple, when its width is below 64 and its field, which starts at the sum of
\* the widths before it, is inside the 8 bytes readNext copies
C6_RoundTripFixedFirst ==
    (sess.kind = "reset" /\ KindsInOrder("f"))
    => \A j \in 1 .. Len(sess.reads) :
           (j <= Len(UnaryItemsWritten) /\ FieldInWindow(FieldStart(j), FixedWidth(j)))
               => Decoded(j) = Code(Quotient(j), Remainder(j), FixedWidth(j))

\* the documented example, remainders first: 10, 3 and 50 are read back
C6_Witness ==
    /\ sess.kind = "reset"
    /\ [i \in 1 .. Len(UnaryItemsWritten) |-> Quotient(i)] = RiceExample.unary
    /\ [i \in 1 .. Len(FixedItems) |-> Remainder(i)]
           = [i \in 1 .. 3 |-> IntBits(RiceExample.fixed[i])]
    /\ [i \in 1 .. Len(sess.reads) |-> Decoded(i)] = <<IntBits(10), IntBits(3), IntBits(50)>>

\* C7: on a new vector, after appendUnaryAll calls only, the j-th readNext(0)
\* returns the j-th length appended
C7_UnaryRoundTrip ==
    (sess.kind = "fresh" /\ FixedItems = <<>>)
    => \A j \in 1 .. Len(sess.reads) :
           sess.reads[j].w = 0 /\ Decoded(j) = IntBits(Quotient(j))

\* a code that ends on the last bit of a word, one that spans an all-zero word and
\* one that spans two are read back from a buffer that has grown
C7_Witness ==
    /\ sess.kind = "fresh" /\ FixedItems = <<>>
    /\ [i \in 1 .. Len(sess.reads) |-> Decoded(i)] = <<IntBits(63), IntBits(64), IntBits(130)>>
    /\ rice.data_bytes > DefaultAllocWords * WordBytes

RECURSIVE Decodes(_, _)
\* the vector after k calls of readNext(0)
Decodes(R, k) == IF k = 0 THEN R ELSE Decodes(readNext(R, 0, "wrap").st, k - 1)

\* C8: skipSubtree(k, f) leaves the vector as k calls of readNext(0) and an advance
\* of the fixed cursor by f bits leave it
C8_SkipIsDecodes ==
    [][rop'.name = "skipSubtree" =>
          rice' = [Decodes(rice, rop'.a) EXCEPT !.curr_fixed_offset = @ + rop'.b]]_vars

\* two codes are skipped that span two words, the second ending on the last bit
\* of its word
C8_Witness ==
    /\ rop.name = "skipSubtree" /\ rop.a = 2 /\ rop.b > 0
    /\ rice.curr_ptr_unary = 2
    /\ rice.curr_window_unary = {}
    /\ rice.valid_lower_bits_unary = 0

\* the size of an appended item and the bit at which the i-th item starts
ItemSize(it) == IF it.kind = "u" THEN it.len + 1 ELSE it.w
StartOf(i) == SumSeq([k \in 1 .. (i - 1) |-> ItemSize(written[k])])

\* the item that starts at bit pos
IndexAt(pos) == CHOOSE i \in 1 .. (Len(written) + 1) : StartOf(i) = pos

\* the buffer holds m fixed fields of width w from bit p on and m unary codes
\* from bit p + o on
HoldsCodes(m, p, o, w) ==
    LET f == IndexAt(p)
        u == IndexAt(p + o)
    IN \A j \in 0 .. (m - 1) :
          /\ u + j <= Len(written) /\ written[u + j].kind = "u"
          /\ w > 0 => /\ f + j <= Len(written)
                      /\ written[f + j].kind = "f"
                      /\ written[f + j].w = w

\* C9: where the buffer holds m fixed fields of width w from bit p on and m unary
\* codes from bit p + o on, the j-th readNext(w) after readReset(p, o) returns
\* (quotient << w) | remainder of the j-th pair, whatever was called before
C9_ResetDecodes ==
    (sess.kind = "reset" /\ sess.reads # <<>>)
    => LET m == Len(sess.reads)
           w == sess.reads[1].w
           f == IndexAt(sess.p)
           u == IndexAt(sess.p + sess.o)
       IN HoldsCodes(m, sess.p, sess.o, w)
              => \A j \in 1 .. m :
                     Decoded(j) = Code(written[u + j - 1].len,
                                       IF w = 0 THEN {} ELSE written[f + j - 1].v, w)

\* ceil(bits / 64) * 8 + 7: the bytes the growth loops and fitData ask for
BytesFor(bits) == ((bits + 63) \div WordBits) * WordBytes + 7

IsPowerOfTwoMultiple(new, old) == \E k \in 0 .. 8 : new = old * 2 ^ k

\* C11: the capacity is a whole number of words and at least
\* ceil(bit_count / 64) * 8 + 7 bytes in every state, and an append that changes it
\* multiplies it by a power of two
C11_Capacity ==
    /\ [](rice.data_bytes % WordBytes = 0 /\ rice.data_bytes >= BytesFor(rice.bit_count))
    /\ [][(rop'.name \in {"appendFixed", "appendUnaryAll"}
              /\ rice'.data_bytes # rice.data_bytes)
          => IsPowerOfTwoMultiple(rice'.data_bytes, rice.data_bytes)]_vars

\* i * BOUND - prefix(i): the sum of the complements BOUND - A[j] of the first i elements
CompPrefix(i) == i * BOUND - prefix(i)

\* C12: on a tree built by the constructor, compFind(t) returns the largest i in
\* 0..Size with i * BOUND - prefix(i) <= t and leaves t - (i * BOUND - prefix(i))
C12_CompFindPredecessor ==
    op.name = "compFind" =>
        /\ op.ret \in 0 .. Size
        /\ CompPrefix(op.ret) <= op.t
        /\ \A i \in 0 .. Size : CompPrefix(i) <= op.t => i <= op.ret
        /\ op.val = op.t - CompPrefix(op.ret)

\* a search that ends inside the tree with a residual, below an element that is
\* neither 0 nor BOUND
C12_Witness ==
    /\ op.name = "compFind" /\ Size = 5 /\ op.ret = 3 /\ op.val = 1
    /\ CompPrefix(4) = CompPrefix(3) + 2
    /\ CompPrefix(3) > CompPrefix(2) /\ CompPrefix(2) > 0

\* the bits of the items appended
BitsWritten == SumSeq([i \in 1 .. Len(written) |-> ItemSize(written[i])])

\* C13: getBits() is the sum of the widths of the appendFixed calls plus the sum of
\* u + 1 over the lengths appended, and readNext, skipSubtree, readReset and
\* fitData leave it unchanged
C13_GetBits ==
    /\ [](getBits(rice) = BitsWritten)
    /\ [][rop'.name \in {"readNext", "skipSubtree", "readReset", "fitData"}
          => getBits(rice') = getBits(rice)]_vars

\* a fixed field and the three codes of the documented batch were appended, and a
\* code was read
C13_Witness ==
    /\ rop.name = "readNext" /\ getBits(rice) = 13
    /\ Len(FixedItems) = 1 /\ Len(UnaryItemsWritten) = 3

\* the tree the constructor builds from the logical sequence
Rebuilt == BitLArray(BOUND, sequence, Size)

\* find (comp = FALSE) and compFind (comp = TRUE) on the rebuilt tree
RebuiltFind(comp, val) ==
    LET r == findLoop(Rebuilt.Tree, Rebuilt.TreeSize, BOUNDSIZE(BOUND), BOUND, comp,
                      Rebuilt.Levels - 1, 0, 0, val)
    IN [ret |-> min(r.node, Size), val |-> r.val]

\* C14: the tree made by pushing v1..vn onto an empty tree gives the prefix sums,
\* and for every target the find and compFind results and residuals, of the tree
\* the constructor builds from [v1..vn]
C14_PushedIsConstructed ==
    /\ \A i \in 0 .. Size : prefix(i) = prefixOf(Rebuilt.Tree, BOUNDSIZE(BOUND), i)
    /\ op.name = "find" =>
           (op.ret = RebuiltFind(FALSE, op.t).ret /\ op.val = RebuiltFind(FALSE, op.t).val)
    /\ op.name = "compFind" =>
           (op.ret = RebuiltFind(TRUE, op.t).ret /\ op.val = RebuiltFind(TRUE, op.t).val)

\* the bits [b, b + w) of the buffer, as a value
Field(R, b, w) == {k \in 0 .. (w - 1) : (b + k) \in R.data}

\* v mod 2^w
Low(v, w) == {k \in v : k < w}

\* C15: appendFixed(v, w) at the write cursor b stores v mod 2^w in the bits
\* [b, b + w), for every w in 1..64 and every b; and readNext(w) with the fixed
\* cursor at b and a unary code of length 0 returns v mod 2^w
C15_FieldStoredAndRead ==
    /\ [][IF rop'.name = "appendFixed" /\ ~looping'
          THEN Field(rice', rice.bit_count, rop'.a) = Low(written'[Len(written')].v, rop'.a)
          ELSE TRUE]_vars
    /\ []((sess.kind = "reset" /\ KindsInOrder("f"))
          => \A j \in 1 .. Len(sess.reads) :
                 (j <= Len(UnaryItemsWritten) /\ Quotient(j) = 0)
                     => Decoded(j) = Low(Remainder(j), FixedWidth(j)))

\* the step is a call of appendFixed or appendUnaryAll that returns
Appended == rop'.name \in {"appendFixed", "appendUnaryAll"} /\ ~looping'

\* C16: appendFixed and appendUnaryAll leave the bits written before the call as
\* they were, also when the capacity doubles; no bit of the capacity gained is set
\* unless the call wrote it; and the unary cursor keeps its word index
C16_GrowthKeepsBits ==
    [][Appended =>
          /\ {b \in rice'.data : b < rice.bit_count} = {b \in rice.data : b < rice.bit_count}
          /\ {b \in rice'.data : b >= 8 * rice.data_bytes /\ b >= rice'.bit_count} = {}
          /\ rice'.curr_ptr_unary = rice.curr_ptr_unary]_vars

\* the field of node j, 1 <= j <= Size, and the height it is stored at
NodeField(j) ==
    LET h == rho(j)
        pos == (j \div 2 ^ (1 + h)) * (BOUNDSIZE(BOUND) + h)
    IN bitread(Tree[h], pos \div 8, pos % 8, BOUNDSIZE(BOUND) + h)

\* the bits of level h the step changes
ChangedBits(h) == (Tree'[h] \ Tree[h]) \cup (Tree[h] \ Tree'[h])

\* C17: the field of a node at height h holds at most BOUND * 2^h, and an add or
\* a push changes the bits of at most one field of a level: nothing is carried
\* into the neighbouring field
C17_FieldsInRange ==
    /\ [](\A j \in 1 .. Size : NodeField(j) <= BOUND * 2 ^ rho(j))
    /\ [][op'.name \in {"add", "push"} =>
             \A h \in 0 .. MaxSize : \A b, c \in ChangedBits(h) :
                 b \div (BOUNDSIZE(BOUND) + h) = c \div (BOUNDSIZE(BOUND) + h)]_vars

\* C18: every call of appendFixed and appendUnaryAll returns, whatever capacity the
\* vector was constructed with and also after fitData, with a capacity of at
\* least ceil(bit_count / 64) * 8 + 7 bytes
C18_AppendsTerminate ==
    /\ ~looping
    /\ rop.name \in {"appendFixed", "appendUnaryAll"}
           => rice.data_bytes >= BytesFor(rice.bit_count)

RECURSIVE ReadValues(_, _, _)
\* what up to k calls of readNext(w) return on the vector R, as long as a code is
\* left and the fixed field is inside what was written
ReadValues(R, w, k) ==
    IF k = 0 \/ CodesAheadOf(R) < 1 \/ R.curr_fixed_offset + w > R.bit_count THEN <<>>
    ELSE LET r == readNext(R, w, "wrap")
         IN <<r.ret>> \o ReadValues(r.st, w, k - 1)

\* what the reads return after readReset(p, o) and a skipSubtree over n codes
RunValues(R, p, o, n, w, k) ==
    LET R1 == readReset(R, p, o)
        R2 == IF n > 0 /\ CodesAheadOf(R1) >= n THEN skipSubtree(R1, n, w) ELSE R1
    IN ReadValues(R2, w, k)

\* the vectors R and F return the same values to reads from their cursors and to
\* reads after a readReset to any two items, with or without a skip in between
SameReads(R, F) ==
    \A w \in {0, RiceExample.width} :
        /\ ReadValues(R, w, MaxReads) = ReadValues(F, w, MaxReads)
        /\ \A pq \in ResetPairs : \A n \in 0 .. MaxSkipNodes :
               pq[2] < R.bit_count =>
                   RunValues(R, pq[1], pq[2] - pq[1], n, w, MaxReads)
                       = RunValues(F, pq[1], pq[2] - pq[1], n, w, MaxReads)

\* C19: fitData() after the appends and before any read leaves getBits() and the
\* bits written as they are, sets the capacity to ceil(bit_count / 64) * 8 + 7
\* bytes and the unary cursor to the buffer start, and every readReset, skipSubtree
\* and readNext sequence returns afterwards what it returns without fitData()
C19_FitKeepsContents ==
    [][(rop'.name = "fitData" /\ Building) =>
          /\ getBits(rice') = getBits(rice)
          /\ {b \in rice'.data : b < rice.bit_count} = {b \in rice.data : b < rice.bit_count}
          /\ rice'.data_bytes = BytesFor(rice.bit_count)
          /\ rice'.curr_ptr_unary = 0
          /\ SameReads(rice, rice')]_vars

\* the codes 1, 0, 6 and 130 were appended, the vector was fitted to three words
\* and 7 bytes and repositioned on the second code, and 0 and 6 were read
C19_Witness ==
    /\ rop.fits = 1 /\ rop.name = "readNext" /\ sess.kind = "reset"
    /\ rice.bit_count > 2 * WordBits
    /\ rice.data_bytes = BytesFor(rice.bit_count)
    /\ sess.p = 0 /\ sess.o = 2
    /\ [i \in 1 .. Len(sess.reads) |-> Decoded(i)] = <<IntBits(0), IntBits(6)>>

====
